---- MODULE Spec2Model ----
(***************************************************************************)
(* The XInput backend of gilrs (src/platform/windows/gamepad.rs): the      *)
(* sampler thread started by Gilrs::spawn_thread, the diff of two XInput   *)
(* gamepad states (Gilrs::compare_state), the channel between the sampler  *)
(* and Gilrs::next_event, the startup events buffered by Gilrs::new, and   *)
(* the lookups Gilrs::gamepad / gamepad_mut and Gamepad::buttons / axes /   *)
(* axis_info with their tables.                                            *)
(***************************************************************************)
EXTENDS Integers, Sequences, FiniteSets, TLC

VARIABLES
    connected,          \* spawn_thread: `connected: [bool; 4]`, the sampler's flags
    prev_state,         \* spawn_thread: `prev_state: XState`, ONE value for all slots
    state,              \* spawn_thread: `state: XState`, the buffer XInputGetState fills
    counter,            \* spawn_thread: `counter`, iterations of the outer loop
    id,                 \* spawn_thread: the `for id in 0..4` position; 4 = after the for
    tx,                 \* the mpsc channel: events sent and not yet received
    additional_events,  \* Gilrs.additional_events: the buffered startup events
    gamepads,           \* Gilrs.gamepads: the status gamepad_new gave each slot
    last,               \* history: the step taken last and what it sent or returned
    rep,                \* history: per slot, what its poll in the latest pass reported
    outcomes,           \* history: per slot, the changes of its polled outcome
    conn_sent,          \* history: per slot, the connectivity events the sampler sent
    conn_hist,          \* history: per slot, the connectivity events next_event returned
    rx_alive,           \* the Receiver half of the channel (Gilrs.rx) still exists
    attached,           \* environment: the slot a device was plugged into, and the tick
    keep_log,           \* history: whether the two logs below are kept
    generated,          \* history: every event the sampler sent, with its tick
    delivered           \* history: every event next_event returned from the channel

vars == <<connected, prev_state, state, counter, id, tx, additional_events,
          gamepads, last, rep, outcomes, conn_sent, conn_hist,
          rx_alive, attached, keep_log, generated, delivered>>

-----------------------------------------------------------------------------
(* Program constants *)

\* gamepad.rs:32
ITERATIONS_TO_CHECK_IF_CONNECTED == 100
\* gamepad.rs:36, 105: `gamepads: [gamepad::Gamepad; 4]`, `for id in 0..4`
NumGamepads == 4
Slots == 0 .. (NumGamepads - 1)

\* winapi::winerror (gamepad.rs:14)
ERROR_SUCCESS == 0
ERROR_DEVICE_NOT_CONNECTED == 1167
\* any other return value of XInputGetState (the code only tests the two above)
ERROR_OTHER == 1

\* winapi::xinput button masks (gamepad.rs:16-21)
XINPUT_GAMEPAD_DPAD_UP == 1
XINPUT_GAMEPAD_DPAD_DOWN == 2
XINPUT_GAMEPAD_DPAD_LEFT == 4
XINPUT_GAMEPAD_DPAD_RIGHT == 8
XINPUT_GAMEPAD_START == 16
XINPUT_GAMEPAD_BACK == 32
XINPUT_GAMEPAD_LEFT_THUMB == 64
XINPUT_GAMEPAD_RIGHT_THUMB == 128
XINPUT_GAMEPAD_LEFT_SHOULDER == 256
XINPUT_GAMEPAD_RIGHT_SHOULDER == 512
XINPUT_GAMEPAD_A == 4096
XINPUT_GAMEPAD_B == 8192
XINPUT_GAMEPAD_X == 16384
XINPUT_GAMEPAD_Y == 32768

\* native_ev_codes (gamepad.rs:460-492)
AXIS_LSTICKX == 0
AXIS_LSTICKY == 1
AXIS_LEFTZ == 2
AXIS_RSTICKX == 3
AXIS_RSTICKY == 4
AXIS_RIGHTZ == 5
AXIS_DPADX == 6
AXIS_DPADY == 7
AXIS_RT == 8
AXIS_LT == 9
AXIS_RT2 == 10
AXIS_LT2 == 11
BTN_SOUTH == 12
BTN_EAST == 13
BTN_C == 14
BTN_NORTH == 15
BTN_WEST == 16
BTN_Z == 17
BTN_LT == 18
BTN_RT == 19
BTN_LT2 == 20
BTN_RT2 == 21
BTN_SELECT == 22
BTN_START == 23
BTN_MODE == 24
BTN_LTHUMB == 25
BTN_RTHUMB == 26
BTN_DPAD_UP == 27
BTN_DPAD_DOWN == 28
BTN_DPAD_LEFT == 29
BTN_DPAD_RIGHT == 30

\* native_ev_codes::BUTTONS (gamepad.rs:494-510)
BUTTONS ==
    <<BTN_SOUTH, BTN_EAST, BTN_NORTH, BTN_WEST, BTN_LT, BTN_RT, BTN_SELECT,
      BTN_START, BTN_MODE, BTN_LTHUMB, BTN_RTHUMB, BTN_DPAD_UP, BTN_DPAD_DOWN,
      BTN_DPAD_LEFT, BTN_DPAD_RIGHT>>

\* native_ev_codes::AXES (gamepad.rs:512-519)
AXES == <<AXIS_LSTICKX, AXIS_LSTICKY, AXIS_RSTICKX, AXIS_RSTICKY, AXIS_RT2, AXIS_LT2>>

\* std::i16::{MAX, MIN}, std::u8::{MAX, MIN} (gamepad.rs:451-452)
I16_MAX == 32767
I16_MIN == -32768
U8_MAX == 255
U8_MIN == 0
\* winapi::xinput (gamepad.rs:454-455)
XINPUT_GAMEPAD_LEFT_THUMB_DEADZONE == 7849
XINPUT_GAMEPAD_RIGHT_THUMB_DEADZONE == 8689
XINPUT_GAMEPAD_TRIGGER_THRESHOLD == 30

-----------------------------------------------------------------------------
(* Machine integers *)

Pow2(n) == 2 ^ n

\* u16 & u16, bit by bit
RECURSIVE BitAnd16(_, _, _)
BitAnd16(l, r, n) ==
    IF n = 0 \/ l = 0 \/ r = 0 THEN 0
    ELSE (IF l % 2 = 1 /\ r % 2 = 1 THEN 1 ELSE 0)
         + 2 * BitAnd16(l \div 2, r \div 2, n - 1)

BitAnd(l, r) == BitAnd16(l, r, 16)

u8_sign_extended(x) == IF x % Pow2(8) >= Pow2(7) THEN (x % Pow2(8)) - Pow2(8) ELSE x % Pow2(8)

\* `x as i32` for x: u8 (BYTE bLeftTrigger, bRightTrigger): zero extension
u8_as_i32(x) == x % Pow2(8)

\* `x as i32` for x: i16 (SHORT sThumb*): sign extension of the 16-bit pattern
i16_as_i32(x) ==
    LET bits == (x + Pow2(16)) % Pow2(16)
    IN  IF bits >= Pow2(15) THEN bits - Pow2(16) ELSE bits

\* `x as u32` for a SHORT or a BYTE x: the value itself when x >= 0, and
\* x + 2^32 when x < 0
as_u32(x) == IF x >= 0 THEN x ELSE (x + Pow2(31)) + Pow2(31)

\* every value of the u8 inside an EvCode (gamepad.rs:442)
U8 == U8_MIN .. U8_MAX

-----------------------------------------------------------------------------
(* XINPUT_STATE / XINPUT_GAMEPAD and RawEvent *)

XGamepad(b, lt, rt, lx, ly, rx, ry) ==
    [wButtons |-> b, bLeftTrigger |-> lt, bRightTrigger |-> rt,
     sThumbLX |-> lx, sThumbLY |-> ly, sThumbRX |-> rx, sThumbRY |-> ry]

XState(p, g) == [dwPacketNumber |-> p, Gamepad |-> g]

\* mem::zeroed::<XState>() (gamepad.rs:99-100)
ZeroedGamepad == XGamepad(0, 0, 0, 0, 0, 0, 0)
ZeroedState == XState(0, ZeroedGamepad)

\* RawEvent::new(id, RawEventType::...)
Connected(i) == [id |-> i, event |-> "Connected"]
Disconnected(i) == [id |-> i, event |-> "Disconnected"]
AxisValueChanged(i, v, c) == [id |-> i, event |-> "AxisValueChanged", val |-> v, code |-> c]
ButtonPressed(i, c) == [id |-> i, event |-> "ButtonPressed", code |-> c]
ButtonReleased(i, c) == [id |-> i, event |-> "ButtonReleased", code |-> c]

\* Option<AxisInfo>
None == [some |-> FALSE]
SomeAxisInfo(lo, hi, dz) == [some |-> TRUE, min |-> lo, max |-> hi, deadzone |-> dz]

AXES_INFO_inverted ==
    << SomeAxisInfo(i16_as_i32(I16_MAX), i16_as_i32(I16_MIN),
                    as_u32(XINPUT_GAMEPAD_LEFT_THUMB_DEADZONE)),
       None, None, None, None, None, None, None, None, None, None, None >>

\* native_ev_codes::AXES_INFO (gamepad.rs:521-570), indexed from 1
AXES_INFO ==
    << SomeAxisInfo(i16_as_i32(I16_MIN), i16_as_i32(I16_MAX),
                    as_u32(XINPUT_GAMEPAD_LEFT_THUMB_DEADZONE)),
       SomeAxisInfo(i16_as_i32(I16_MIN), i16_as_i32(I16_MAX),
                    as_u32(XINPUT_GAMEPAD_LEFT_THUMB_DEADZONE)),
       None,
       SomeAxisInfo(i16_as_i32(I16_MIN), i16_as_i32(I16_MAX),
                    as_u32(XINPUT_GAMEPAD_RIGHT_THUMB_DEADZONE)),
       SomeAxisInfo(i16_as_i32(I16_MIN), i16_as_i32(I16_MAX),
                    as_u32(XINPUT_GAMEPAD_RIGHT_THUMB_DEADZONE)),
       None,
       None,
       None,
       None,
       None,
       SomeAxisInfo(u8_as_i32(U8_MIN), u8_as_i32(U8_MAX),
                    as_u32(XINPUT_GAMEPAD_TRIGGER_THRESHOLD)),
       SomeAxisInfo(u8_as_i32(U8_MIN), u8_as_i32(U8_MAX),
                    as_u32(XINPUT_GAMEPAD_TRIGGER_THRESHOLD)) >>

-----------------------------------------------------------------------------
(* The diff, gamepad.rs:135-340 and 418-421 *)

is_mask_eq_flipped(l, r, mask) == (BitAnd(l, mask) # 0) = (BitAnd(r, mask) = 0)

\* fn is_mask_eq(l: u16, r: u16, mask: u16) -> bool
is_mask_eq(l, r, mask) == (BitAnd(l, mask) # 0) = (BitAnd(r, mask) # 0)

\* one `if g.<axis> != pg.<axis> { tx.send(AxisValueChanged(g.<axis> as i32, code)) }`
AxisDiff(i, v, pv, asI32, code) ==
    IF v # pv THEN <<AxisValueChanged(i, asI32, code)>> ELSE <<>>

ButtonDiff_stale(i, b, pb, mask, code) ==
    IF ~is_mask_eq(b, pb, mask)
    THEN IF BitAnd(pb, mask) # 0
         THEN <<ButtonPressed(i, code)>>
         ELSE <<ButtonReleased(i, code)>>
    ELSE <<>>

\* one `if !is_mask_eq(g.wButtons, pg.wButtons, M) { match g.wButtons & M != 0 {..} }`
ButtonDiff(i, b, pb, mask, code) ==
    IF ~is_mask_eq(b, pb, mask)
    THEN IF BitAnd(b, mask) # 0
         THEN <<ButtonPressed(i, code)>>
         ELSE <<ButtonReleased(i, code)>>
    ELSE <<>>

\* the six axis tests, gamepad.rs:136-171, in the code's order
compare_axes_swapped(i, g, pg) ==
       AxisDiff(i, g.bLeftTrigger, pg.bLeftTrigger, u8_as_i32(g.bLeftTrigger), AXIS_RT2)
    \o AxisDiff(i, g.bRightTrigger, pg.bRightTrigger, u8_as_i32(g.bRightTrigger), AXIS_LT2)
    \o AxisDiff(i, g.sThumbLX, pg.sThumbLX, i16_as_i32(g.sThumbLX), AXIS_LSTICKX)
    \o AxisDiff(i, g.sThumbLY, pg.sThumbLY, i16_as_i32(g.sThumbLY), AXIS_LSTICKY)
    \o AxisDiff(i, g.sThumbRX, pg.sThumbRX, i16_as_i32(g.sThumbRX), AXIS_RSTICKX)
    \o AxisDiff(i, g.sThumbRY, pg.sThumbRY, i16_as_i32(g.sThumbRY), AXIS_RSTICKY)

compare_axes(i, g, pg) ==
       AxisDiff(i, g.bLeftTrigger, pg.bLeftTrigger, u8_as_i32(g.bLeftTrigger), AXIS_LT2)
    \o AxisDiff(i, g.bRightTrigger, pg.bRightTrigger, u8_as_i32(g.bRightTrigger), AXIS_RT2)
    \o AxisDiff(i, g.sThumbLX, pg.sThumbLX, i16_as_i32(g.sThumbLX), AXIS_LSTICKX)
    \o AxisDiff(i, g.sThumbLY, pg.sThumbLY, i16_as_i32(g.sThumbLY), AXIS_LSTICKY)
    \o AxisDiff(i, g.sThumbRX, pg.sThumbRX, i16_as_i32(g.sThumbRX), AXIS_RSTICKX)
    \o AxisDiff(i, g.sThumbRY, pg.sThumbRY, i16_as_i32(g.sThumbRY), AXIS_RSTICKY)

\* the fourteen button tests, gamepad.rs:172-339, in the code's order
compare_buttons(i, g, pg) ==
       ButtonDiff(i, g.wButtons, pg.wButtons, XINPUT_GAMEPAD_DPAD_UP, BTN_DPAD_UP)
    \o ButtonDiff(i, g.wButtons, pg.wButtons, XINPUT_GAMEPAD_DPAD_DOWN, BTN_DPAD_DOWN)
    \o ButtonDiff(i, g.wButtons, pg.wButtons, XINPUT_GAMEPAD_DPAD_LEFT, BTN_DPAD_LEFT)
    \o ButtonDiff(i, g.wButtons, pg.wButtons, XINPUT_GAMEPAD_DPAD_RIGHT, BTN_DPAD_RIGHT)
    \o ButtonDiff(i, g.wButtons, pg.wButtons, XINPUT_GAMEPAD_START, BTN_START)
    \o ButtonDiff(i, g.wButtons, pg.wButtons, XINPUT_GAMEPAD_BACK, BTN_SELECT)
    \o ButtonDiff(i, g.wButtons, pg.wButtons, XINPUT_GAMEPAD_LEFT_THUMB, BTN_LTHUMB)
    \o ButtonDiff(i, g.wButtons, pg.wButtons, XINPUT_GAMEPAD_RIGHT_THUMB, BTN_RTHUMB)
    \o ButtonDiff(i, g.wButtons, pg.wButtons, XINPUT_GAMEPAD_LEFT_SHOULDER, BTN_LT)
    \o ButtonDiff(i, g.wButtons, pg.wButtons, XINPUT_GAMEPAD_RIGHT_SHOULDER, BTN_RT)
    \o ButtonDiff(i, g.wButtons, pg.wButtons, XINPUT_GAMEPAD_A, BTN_SOUTH)
    \o ButtonDiff(i, g.wButtons, pg.wButtons, XINPUT_GAMEPAD_B, BTN_EAST)
    \o ButtonDiff(i, g.wButtons, pg.wButtons, XINPUT_GAMEPAD_X, BTN_WEST)
    \o ButtonDiff(i, g.wButtons, pg.wButtons, XINPUT_GAMEPAD_Y, BTN_NORTH)

\* fn compare_state(id, g, pg, tx): the events it sends on tx, in order
compare_state(i, g, pg) == compare_axes(i, g, pg) \o compare_buttons(i, g, pg)

-----------------------------------------------------------------------------
(* Bounds of the model *)

\* ticks of the sampler loop explored with gamepad states that differ
MaxTicks == 2
\* ticks explored when only connectivity is followed: a slot that was seen
\* absent is polled again when counter reaches ITERATIONS_TO_CHECK_IF_CONNECTED
MaxTicksConn == 102
\* slots 0 .. MaxLive-1 may hold a device
MaxLive == 2
\* with a consumer, the sampler runs while fewer than MaxQueue events wait
MaxQueue == 1

\* ticks explored when the channel is followed event by event, and the
\* number of waiting events below which the sampler is let run there
MaxTicksChan == 2
MaxQueueChan == 2

\* gamepad(id) and gamepad_mut(id) are called with id in 0 .. MaxId and with
\* the largest id the model can write
MaxId == 6
LargestId == (Pow2(30) - 1) * 2 + 1

LiveSlots == {i \in Slots : i < MaxLive}

\* the states the native layer reports when gamepad states differ
Held == XGamepad(0, 255, 0, 0, -32768, 0, 0)
HeldUp == XGamepad(XINPUT_GAMEPAD_DPAD_UP, 255, 0, 0, -32768, 0, 0)
FullInputs == { XState(1, Held), XState(2, HeldUp) }
\* the state the native layer reports when the channel is followed
ChanInputs == { XState(1, Held) }
\* the state the native layer reports when only connectivity is followed
ConnInputs == { ZeroedState }

-----------------------------------------------------------------------------
(* Gilrs::new, gamepad.rs:43-75 *)

NoReport == [ok |-> FALSE]
NoStep == [op |-> "new", sent |-> <<>>]
NotAttached == [on |-> FALSE]

\* gamepad_new(id), gamepad.rs:423-439: the status from the first XInputGetState
gamepad_new(val) == IF val = ERROR_SUCCESS THEN "Connected" ELSE "NotObserved"

\* gamepad::Gamepad::is_connected, called at gamepad.rs:51-56 and defined outside
\* this file: read as status == Status::Connected, the status gamepad_new stores
is_connected(status) == status = "Connected"

\* connected.iter().enumerate().filter(con).map(Connected).collect(), from slot i on
RECURSIVE startup_events(_, _)
startup_events(con, i) ==
    IF i >= NumGamepads THEN <<>>
    ELSE (IF con[i] THEN <<Connected(i)>> ELSE <<>>) \o startup_events(con, i + 1)

\* The state Gilrs::new returns with, when the first XInputGetState of slot i
\* replied vals[i].
new(vals) ==
    /\ gamepads = [i \in Slots |-> gamepad_new(vals[i])]
    /\ connected = [i \in Slots |-> is_connected(gamepads[i])]
    /\ additional_events = startup_events(connected, 0)
    /\ tx = <<>>
    /\ prev_state = ZeroedState
    /\ state = ZeroedState
    /\ counter = 0
    /\ id = 0
    /\ last = NoStep
    /\ rep = [i \in Slots |-> NoReport]
    /\ outcomes = [i \in Slots |-> <<>>]
    /\ conn_sent = [i \in Slots |-> <<>>]
    /\ conn_hist = [i \in Slots |-> <<>>]
    /\ rx_alive = TRUE
    /\ attached = NotAttached
    /\ generated = <<>>
    /\ delivered = <<>>

StartupReplies(live) ==
    { vals \in [Slots -> {ERROR_SUCCESS, ERROR_DEVICE_NOT_CONNECTED}] :
        \A i \in Slots : vals[i] = ERROR_SUCCESS => i \in live }

Init == \E vals \in StartupReplies(LiveSlots) : new(vals) /\ keep_log = TRUE

\* the construction when no slot holds a device
InitDetect == \E vals \in StartupReplies({}) : new(vals) /\ keep_log = FALSE

\* the same construction, followed without the logs
InitConn == \E vals \in StartupReplies(LiveSlots) : new(vals) /\ keep_log = FALSE

-----------------------------------------------------------------------------
(* The sampler thread, gamepad.rs:97-133 *)

send_front(q, evs) == IF rx_alive THEN evs \o q ELSE q

\* tx.send(ev) for each ev of evs; the result of send is discarded (`let _ =`):
\* Ok when the Receiver exists, Err (and the event is lost) when it was dropped
send(q, evs) == IF rx_alive THEN q \o evs ELSE q

must_poll_every_tick(i) == TRUE

must_poll_connected_only(i) == connected[i]

\* gamepad.rs:106-107
must_poll(i) == connected[i] \/ counter % ITERATIONS_TO_CHECK_IF_CONNECTED = 0

on_success_connect_always(i) == <<Connected(i)>>

\* gamepad.rs:112-115: the events of `if !connected[id] { connected[id] = true; send }`
on_success_connect(i) == IF ~connected[i] THEN <<Connected(i)>> ELSE <<>>

\* gamepad.rs:117: `state.dwPacketNumber != prev_state.dwPacketNumber`
packet_changed(st) == st.dwPacketNumber # prev_state.dwPacketNumber

\* gamepad.rs:117-120: the events of the diff against prev_state
on_success_diff(i, st) ==
    IF packet_changed(st)
    THEN compare_state(i, st.Gamepad, prev_state.Gamepad)
    ELSE <<>>

on_success_late(i, st) == on_success_diff(i, st) \o on_success_connect(i)

\* gamepad.rs:111-120: everything a successful poll sends, in order
on_success(i, st) == on_success_connect(i) \o on_success_diff(i, st)

is_disconnect_any_failure(i, val) == val # ERROR_SUCCESS /\ connected[i]

is_disconnect_unchecked(i, val) == val = ERROR_DEVICE_NOT_CONNECTED

\* gamepad.rs:121: `val == ERROR_DEVICE_NOT_CONNECTED && connected[id]`
is_disconnect(i, val) == val = ERROR_DEVICE_NOT_CONNECTED /\ connected[i]

\* gamepad.rs:121-125: everything a failed poll sends
on_failure(i, val) == IF is_disconnect(i, val) THEN <<Disconnected(i)>> ELSE <<>>

ConnEvents(evs) == SelectSeq(evs, LAMBDA e : e.event \in {"Connected", "Disconnected"})

EventNames(evs) == [k \in 1 .. Len(evs) |-> evs[k].event]

\* history of one poll of slot i that replied val (state st) and sent `sent`
Polled(i, val, st, sent) ==
    /\ last' = [op |-> "poll", id |-> i, val |-> val, sent |-> sent,
                was_connected |-> connected[i], prev_rep |-> rep[i]]
    /\ rep' = [rep EXCEPT ![i] =
                 IF val = ERROR_SUCCESS THEN [ok |-> TRUE, st |-> st] ELSE NoReport]
    /\ outcomes' = [outcomes EXCEPT ![i] =
                 LET before == IF @ = <<>>
                               THEN (IF is_connected(gamepads[i])
                                     THEN ERROR_SUCCESS
                                     ELSE ERROR_DEVICE_NOT_CONNECTED)
                               ELSE @[Len(@)]
                 IN  IF val # ERROR_OTHER /\ val # before THEN Append(@, val) ELSE @]
    /\ conn_sent' = [conn_sent EXCEPT ![i] = @ \o EventNames(ConnEvents(sent))]
    /\ generated' = IF keep_log
                    THEN generated \o [k \in 1 .. Len(sent) |->
                                         [tick |-> counter, ev |-> sent[k]]]
                    ELSE generated

\* One pass of the body of `for id in 0..4` in which XInputGetState is called
\* and replies val (and, on success, fills `state` with st).  With a consumer
\* (cap > 0) the pass is taken while fewer than cap events wait in the channel.
Poll(inputs, live, cap) ==
    /\ id \in Slots
    /\ cap > 0 => Len(tx) < cap
    /\ must_poll(id)
    /\ \E val \in {ERROR_SUCCESS, ERROR_DEVICE_NOT_CONNECTED, ERROR_OTHER} :
         IF val = ERROR_SUCCESS
         THEN /\ id \in live
              /\ \E st \in inputs :
                   /\ state' = st
                   /\ connected' = [connected EXCEPT ![id] = TRUE]
                   /\ prev_state' = IF packet_changed(st) THEN st ELSE prev_state
                   /\ tx' = send(tx, on_success(id, st))
                   /\ Polled(id, val, st, on_success(id, st))
         ELSE /\ connected' = [connected EXCEPT ![id] = @ /\ ~is_disconnect(id, val)]
              /\ tx' = send(tx, on_failure(id, val))
              /\ Polled(id, val, state, on_failure(id, val))
              /\ UNCHANGED <<state, prev_state>>
    /\ id' = id + 1
    /\ UNCHANGED <<counter, additional_events, gamepads, conn_hist,
                   rx_alive, attached, keep_log, delivered>>

\* One pass of the body of `for id in 0..4` whose `if` (gamepad.rs:106) is false.
Skip ==
    /\ id \in Slots
    /\ ~must_poll(id)
    /\ id' = id + 1
    /\ last' = [op |-> "skip", id |-> id, sent |-> <<>>]
    /\ rep' = [rep EXCEPT ![id] = NoReport]
    /\ UNCHANGED <<connected, prev_state, state, counter, tx, additional_events,
                   gamepads, outcomes, conn_sent, conn_hist,
                   rx_alive, attached, keep_log, generated, delivered>>

Sleep_while_received(maxTicks) ==
    /\ rx_alive
    /\ id = NumGamepads
    /\ counter + 1 < maxTicks
    /\ counter' = counter + 1
    /\ id' = 0
    /\ last' = [op |-> "sleep", sent |-> <<>>]
    /\ UNCHANGED <<connected, prev_state, state, tx, additional_events,
                   gamepads, rep, outcomes, conn_sent, conn_hist,
                   rx_alive, attached, keep_log, generated, delivered>>

\* gamepad.rs:129-130: counter.wrapping_add(1), sleep, and the next `for`.
\* The counter is a u64; the model stops before maxTicks, far from the wrap.
Sleep(maxTicks) ==
    /\ id = NumGamepads
    /\ counter + 1 < maxTicks
    /\ counter' = counter + 1
    /\ id' = 0
    /\ last' = [op |-> "sleep", sent |-> <<>>]
    /\ UNCHANGED <<connected, prev_state, state, tx, additional_events,
                   gamepads, rep, outcomes, conn_sent, conn_hist,
                   rx_alive, attached, keep_log, generated, delivered>>

-----------------------------------------------------------------------------
(* Gilrs::next_event, gamepad.rs:77-83 *)

\* history of next_event returning ev (<<>> for None) taken from src
Returned(src, ev) ==
    /\ last' = [op |-> "next_event", src |-> src, sent |-> <<>>, ret |-> ev]
    /\ conn_hist' = IF ConnEvents(ev) # <<>>
                    THEN [conn_hist EXCEPT ![ev[1].id] = Append(@, ev[1].event)]
                    ELSE conn_hist
    /\ delivered' = IF keep_log /\ src = "rx" THEN delivered \o ev ELSE delivered

next_event_rx_first ==
    /\ rx_alive
    /\ IF tx # <<>>
       THEN /\ tx' = Tail(tx)
            /\ Returned("rx", <<Head(tx)>>)
            /\ UNCHANGED additional_events
       ELSE IF additional_events # <<>>
       THEN /\ additional_events' = Tail(additional_events)
            /\ Returned("additional_events", <<Head(additional_events)>>)
            /\ UNCHANGED tx
       ELSE /\ Returned("rx", <<>>)
            /\ UNCHANGED <<tx, additional_events>>
    /\ UNCHANGED <<connected, prev_state, state, counter, id, gamepads, rep,
                   outcomes, conn_sent, rx_alive, attached, keep_log, generated>>

next_event_newest ==
    /\ rx_alive
    /\ IF additional_events # <<>>
       THEN /\ additional_events' = Tail(additional_events)
            /\ Returned("additional_events", <<Head(additional_events)>>)
            /\ UNCHANGED tx
       ELSE IF tx # <<>>
       THEN /\ tx' = SubSeq(tx, 1, Len(tx) - 1)
            /\ Returned("rx", <<tx[Len(tx)]>>)
            /\ UNCHANGED additional_events
       ELSE /\ Returned("rx", <<>>)
            /\ UNCHANGED <<tx, additional_events>>
    /\ UNCHANGED <<connected, prev_state, state, counter, id, gamepads, rep,
                   outcomes, conn_sent, rx_alive, attached, keep_log, generated>>

\* fn next_event(&mut self): callable while the Gilrs, which owns rx, exists
next_event ==
    /\ rx_alive
    /\ IF additional_events # <<>>
       THEN /\ additional_events' = Tail(additional_events)
            /\ Returned("additional_events", <<Head(additional_events)>>)
            /\ UNCHANGED tx
       ELSE IF tx # <<>>
       THEN /\ tx' = Tail(tx)
            /\ Returned("rx", <<Head(tx)>>)
            /\ UNCHANGED additional_events
       ELSE /\ Returned("rx", <<>>)
            /\ UNCHANGED <<tx, additional_events>>
    /\ UNCHANGED <<connected, prev_state, state, counter, id, gamepads, rep,
                   outcomes, conn_sent, rx_alive, attached, keep_log, generated>>

\* The environment: a device is plugged into a slot the sampler has marked
\* disconnected, and stays there.
plug ==
    /\ ~attached.on
    /\ \E i \in LiveSlots :
         /\ ~connected[i]
         /\ attached' = [on |-> TRUE, slot |-> i, at |-> counter]
    /\ last' = [op |-> "plug", sent |-> <<>>]
    /\ UNCHANGED <<connected, prev_state, state, counter, id, tx, additional_events,
                   gamepads, rep, outcomes, conn_sent, conn_hist,
                   rx_alive, keep_log, generated, delivered>>

\* the slots that hold a device once one was plugged in
PresentSlots == IF attached.on THEN {attached.slot} ELSE {}

\* a pass that queries: XInputGetState replies ERROR_SUCCESS for a slot that
\* holds a device and a failure for every other slot
PollPresent ==
    /\ Poll(ConnInputs, PresentSlots, 0)
    /\ id \in PresentSlots => last'.val = ERROR_SUCCESS

\* The Gilrs value is dropped: its Receiver and its buffer go, what waits in
\* the channel is lost, and the sampler thread, which was never joined
\* (gamepad.rs:98), runs on with its Sender.
drop ==
    /\ rx_alive
    /\ rx_alive' = FALSE
    /\ tx' = <<>>
    /\ additional_events' = <<>>
    /\ last' = [op |-> "drop", sent |-> <<>>]
    /\ UNCHANGED <<connected, prev_state, state, counter, id, gamepads, rep,
                   outcomes, conn_sent, conn_hist, attached, keep_log,
                   generated, delivered>>

-----------------------------------------------------------------------------
(* Gilrs::gamepad / gamepad_mut, gamepad.rs:85-91, and Gamepad, gamepad.rs:349-416 *)

\* a reference into the Gilrs value: &self.gamepads[index] or &self.not_observed
SlotRef(i) == [place |-> "gamepads", index |-> i]
NotObservedRef == [place |-> "not_observed", index |-> 0]

\* Gamepad { uuid: Uuid::nil(), id } of gamepad_new (gamepad.rs:424-427)
PlatformGamepad(i) == [uuid |-> "nil", id |-> i]

\* Gamepad::none(), gamepad.rs:350-355; its id is u32::MAX, all 32 bits set,
\* written here as the 32-bit integer with these bits
none == [uuid |-> "nil", id |-> -1]

\* gamepad::Gamepad::from_inner_status(inner, status)
from_inner_status(inner, status) == [inner |-> inner, status |-> status]

\* Gilrs.not_observed, gamepad.rs:72
not_observed == from_inner_status(none, "NotObserved")

\* the gamepad::Gamepad a reference points to (gamepad.rs:44-49, 69-73)
Deref(r) ==
    IF r.place = "gamepads"
    THEN from_inner_status(PlatformGamepad(r.index), gamepads[r.index])
    ELSE not_observed

gamepad_unchecked(i) == SlotRef(i)

\* self.gamepads.get(id).unwrap_or(&self.not_observed), id: usize
gamepad(i) == IF i < NumGamepads THEN SlotRef(i) ELSE NotObservedRef

\* self.gamepads.get_mut(id).unwrap_or(&mut self.not_observed)
gamepad_mut(i) == IF i < NumGamepads THEN SlotRef(i) ELSE NotObservedRef

\* Gamepad::buttons(&self), Gamepad::axes(&self): self is not looked at
buttons(self) == BUTTONS
axes(self) == AXES

\* Gamepad::axis_info(&self, nec): AXES_INFO.get(nec.0 as usize).and_then(as_ref)
axis_info(self, nec) == IF nec < Len(AXES_INFO) THEN AXES_INFO[nec + 1] ELSE None

\* history of one call of the consumer-facing functions; the functions change
\* nothing, so one call on the value Gilrs::new returned is followed
Called(op, arg, ret) ==
    /\ last.op = "new"
    /\ last' = [op |-> op, arg |-> arg, ret |-> ret, sent |-> <<>>]
    /\ UNCHANGED <<connected, prev_state, state, counter, id, tx, additional_events,
                   gamepads, rep, outcomes, conn_sent, conn_hist,
                   rx_alive, attached, keep_log, generated, delivered>>

UsizeArgs == (0 .. MaxId) \cup {LargestId}
Refs == {SlotRef(i) : i \in Slots} \cup {NotObservedRef}

call_gamepad == \E i \in UsizeArgs : Called("gamepad", i, gamepad(i))
call_gamepad_mut == \E i \in UsizeArgs : Called("gamepad_mut", i, gamepad_mut(i))
call_buttons == \E r \in Refs : Called("buttons", r, buttons(Deref(r).inner))
call_axes == \E r \in Refs : Called("axes", r, axes(Deref(r).inner))
call_axis_info ==
    \E r \in Refs, nec \in U8 :
      Called("axis_info", <<r, nec>>, axis_info(Deref(r).inner, nec))

-----------------------------------------------------------------------------
(* The sampler alone, over gamepad states that differ: tx keeps every event sent *)

Next ==
    \/ Poll(FullInputs, LiveSlots, 0)
    \/ Skip
    \/ Sleep(MaxTicks)

Spec == Init /\ [][Next]_vars

(* The sampler and the consumer, connectivity only *)

NextConn ==
    \/ Poll(ConnInputs, LiveSlots, MaxQueue)
    \/ Skip
    \/ Sleep(MaxTicksConn)
    \/ next_event

SpecConn == InitConn /\ [][NextConn]_vars

(* The sampler, the consumer and the end of the consumer, event by event *)

NextChan ==
    \/ Poll(ChanInputs, LiveSlots, MaxQueueChan)
    \/ Skip
    \/ Sleep(MaxTicksChan)
    \/ next_event
    \/ drop

SpecChan == Init /\ [][NextChan]_vars

(* The sampler and a device that is plugged in and stays *)

NextDetect ==
    \/ PollPresent
    \/ Skip
    \/ Sleep(MaxTicksConn)
    \/ plug

SpecDetect == InitDetect /\ [][NextDetect]_vars

(* The consumer-facing functions that read the Gilrs value and the tables *)

NextApi ==
    \/ call_gamepad
    \/ call_gamepad_mut
    \/ call_buttons
    \/ call_axes
    \/ call_axis_info

SpecApi == Init /\ [][NextApi]_vars

(* compare_state alone: one call on a pair of gamepad states *)

\* w with bit b flipped
ToggleBit(w, b) ==
    IF (w \div Pow2(b)) % 2 = 1 THEN w - Pow2(b) ELSE w + Pow2(b)

AxisFields ==
    {"bLeftTrigger", "bRightTrigger", "sThumbLX", "sThumbLY", "sThumbRX", "sThumbRY"}

\* values of a BYTE trigger and of a SHORT thumb axis, the extremes included
AxisValues(f) ==
    IF f \in {"bLeftTrigger", "bRightTrigger"} THEN {0, 1, 255} ELSE {-32768, -1, 32767}

DiffBase ==
    { XGamepad(b, lt, 0, lx, 0, 0, ry) :
        b \in {0, 23130, 65535}, lt \in {0, 255}, lx \in {0, 32767}, ry \in {0, -32768} }

\* pg, or pg with one bit or every bit of wButtons flipped, and/or one axis
\* field replaced
Changed(pg) ==
    LET Buttons == {pg, [pg EXCEPT !.wButtons = (Pow2(16) - 1) - @]}
                   \cup { [pg EXCEPT !.wButtons = ToggleBit(@, b)] : b \in 0 .. 15 }
    IN  Buttons \cup UNION { { [h EXCEPT ![f] = v] : v \in AxisValues(f) } :
                                h \in Buttons, f \in AxisFields }

InitDiff ==
    \E pg \in DiffBase, i \in {0, NumGamepads - 1} :
      \E g \in Changed(pg) :
        /\ state = XState(1, g)
        /\ prev_state = XState(0, pg)
        /\ id = i
        /\ tx = <<>>
        /\ last = NoStep
        /\ gamepads = [s \in Slots |-> gamepad_new(ERROR_DEVICE_NOT_CONNECTED)]
        /\ connected = [s \in Slots |-> s = i]
        /\ additional_events = <<>>
        /\ counter = 0
        /\ rep = [s \in Slots |-> NoReport]
        /\ outcomes = [s \in Slots |-> <<>>]
        /\ conn_sent = [s \in Slots |-> <<>>]
        /\ conn_hist = [s \in Slots |-> <<>>]
        /\ rx_alive = TRUE
        /\ attached = NotAttached
        /\ keep_log = FALSE
        /\ generated = <<>>
        /\ delivered = <<>>

\* Self::compare_state(id, &state.Gamepad, &prev_state.Gamepad, &tx)
Compare ==
    /\ last.op = "new"
    /\ tx' = send(tx, compare_state(id, state.Gamepad, prev_state.Gamepad))
    /\ last' = [op |-> "compare_state", id |-> id,
                sent |-> compare_state(id, state.Gamepad, prev_state.Gamepad)]
    /\ UNCHANGED <<connected, prev_state, state, counter, id, additional_events,
                   gamepads, rep, outcomes, conn_sent, conn_hist,
                   rx_alive, attached, keep_log, generated, delivered>>

NextDiff == Compare

SpecDiff == InitDiff /\ [][NextDiff]_vars

-----------------------------------------------------------------------------
(* Properties *)

\* the button masks compare_state is expected to know, with their codes
KnownButtons ==
    { <<XINPUT_GAMEPAD_DPAD_UP, BTN_DPAD_UP>>, <<XINPUT_GAMEPAD_DPAD_DOWN, BTN_DPAD_DOWN>>,
      <<XINPUT_GAMEPAD_DPAD_LEFT, BTN_DPAD_LEFT>>, <<XINPUT_GAMEPAD_DPAD_RIGHT, BTN_DPAD_RIGHT>>,
      <<XINPUT_GAMEPAD_START, BTN_START>>, <<XINPUT_GAMEPAD_BACK, BTN_SELECT>>,
      <<XINPUT_GAMEPAD_LEFT_THUMB, BTN_LTHUMB>>, <<XINPUT_GAMEPAD_RIGHT_THUMB, BTN_RTHUMB>>,
      <<XINPUT_GAMEPAD_LEFT_SHOULDER, BTN_LT>>, <<XINPUT_GAMEPAD_RIGHT_SHOULDER, BTN_RT>>,
      <<XINPUT_GAMEPAD_A, BTN_SOUTH>>, <<XINPUT_GAMEPAD_B, BTN_EAST>>,
      <<XINPUT_GAMEPAD_X, BTN_WEST>>, <<XINPUT_GAMEPAD_Y, BTN_NORTH>> }

\* the axis fields with the codes the claims name for them
KnownAxes ==
    { <<"bLeftTrigger", AXIS_LT2>>, <<"bRightTrigger", AXIS_RT2>>,
      <<"sThumbLX", AXIS_LSTICKX>>, <<"sThumbLY", AXIS_LSTICKY>>,
      <<"sThumbRX", AXIS_RSTICKX>>, <<"sThumbRY", AXIS_RSTICKY>> }

SameAxes(g, pg) == \A f \in AxisFields : g[f] = pg[f]

\* g is pg with the one bit `mask` of wButtons set
BitNewlySet(g, pg, mask) ==
    /\ (pg.wButtons \div mask) % 2 = 0
    /\ g.wButtons = pg.wButtons + mask

BitNewlyClear(g, pg, mask) == BitNewlySet(pg, g, mask)

PolledOk == last.op = "poll" /\ last.val = ERROR_SUCCESS

\* the slot polled last was connected, and its poll one pass earlier succeeded
PolledAgain == PolledOk /\ last.was_connected /\ last.prev_rep.ok

\* the events of the stream that precede position k and concern slot i's connectivity
ConnBefore(stream, k, i) ==
    SelectSeq(SubSeq(stream, 1, k - 1),
              LAMBDA e : e.id = i /\ e.event \in {"Connected", "Disconnected"})

IsInput(e) == e.event \in {"AxisValueChanged", "ButtonPressed", "ButtonReleased"}

\* everything next_event will have returned once it has drained the channel
Stream == additional_events \o tx

\* C1: on an already-connected slot, two consecutive ticks whose reports differ
\* in one known button bit (clear, then set; packet number changed; all else
\* equal) make the second tick send exactly one ButtonPressed with that
\* button's code for the slot, whatever the other slots report.
C1_OnePressPerBit ==
    \A b \in KnownButtons :
      ( /\ PolledAgain
        /\ last.prev_rep.st.dwPacketNumber # state.dwPacketNumber
        /\ SameAxes(state.Gamepad, last.prev_rep.st.Gamepad)
        /\ BitNewlySet(state.Gamepad, last.prev_rep.st.Gamepad, b[1]) )
      => last.sent = <<ButtonPressed(last.id, b[2])>>

\* C2: a successful poll of a slot marked disconnected marks it connected and
\* sends Connected and nothing else for it.
C2_ConnectSendsOnlyConnected ==
    (PolledOk /\ ~last.was_connected)
      => (connected[last.id] /\ last.sent = <<Connected(last.id)>>)

\* C3: per slot, the Connected and Disconnected events next_event returned
\* strictly alternate.
C3_ConnectivityAlternates ==
    \A i \in Slots : \A k \in 1 .. (Len(conn_hist[i]) - 1) :
      conn_hist[i][k] # conn_hist[i][k + 1]

C3_Witness ==
    \E i \in Slots : conn_hist[i] = <<"Connected", "Disconnected", "Connected">>

\* C4: an axis or button event of slot i is sent only while slot i is marked
\* connected, and in the event stream the latest connectivity event of slot i
\* before it is a Connected.
C4_InputOnlyWhileConnected ==
    /\ \A k \in 1 .. Len(last.sent) :
         IsInput(last.sent[k]) => connected[last.sent[k].id]
    /\ \A k \in 1 .. Len(Stream) :
         IsInput(Stream[k]) =>
           LET before == ConnBefore(Stream, k, Stream[k].id)
           IN  before # <<>> /\ before[Len(before)].event = "Connected"

C4_Witness ==
    \E k \in 1 .. Len(tx) :
      /\ IsInput(tx[k])
      /\ ~is_connected(gamepads[tx[k].id])
      /\ \E j \in 1 .. (k - 1) : tx[j] = Connected(tx[k].id)

\* C5: on a connected slot, a successful poll with the packet number of the
\* slot's previous successful poll sends nothing, whatever the other slots do.
C5_SamePacketSendsNothing ==
    (PolledAgain /\ last.prev_rep.st.dwPacketNumber = state.dwPacketNumber)
      => last.sent = <<>>

Compared == last.op = "compare_state"

\* C6: when the two gamepad states differ in exactly one axis field,
\* compare_state sends exactly one AxisValueChanged, with the new value of
\* that field and the code of that axis.
C6_OneAxisOneEvent ==
    \A a \in KnownAxes :
      ( /\ Compared
        /\ state.Gamepad[a[1]] # prev_state.Gamepad[a[1]]
        /\ state.Gamepad = [prev_state.Gamepad EXCEPT ![a[1]] = state.Gamepad[a[1]]] )
      => last.sent = <<AxisValueChanged(id, state.Gamepad[a[1]], a[2])>>

C6_Witness ==
    /\ Compared
    /\ state.Gamepad = [prev_state.Gamepad EXCEPT !.sThumbLY = -32768]
    /\ prev_state.Gamepad.sThumbLY = 0
    /\ prev_state.Gamepad.wButtons = 65535
    /\ last.sent = <<AxisValueChanged(id, -32768, AXIS_LSTICKY)>>

\* C7 as stated: when the two gamepad states differ in exactly one bit of
\* wButtons, whichever bit, compare_state sends exactly one event, a
\* ButtonPressed or a ButtonReleased.
C7_AnyBitOneEvent ==
    \A b \in 0 .. 15 :
      ( /\ Compared
        /\ SameAxes(state.Gamepad, prev_state.Gamepad)
        /\ state.Gamepad.wButtons = ToggleBit(prev_state.Gamepad.wButtons, b) )
      => /\ Len(last.sent) = 1
         /\ last.sent[1].event \in {"ButtonPressed", "ButtonReleased"}

\* C7 (amended): when the two gamepad states differ in exactly one of the
\* fourteen bits of wButtons that compare_state tests, it sends exactly one
\* event: ButtonPressed with that bit's code when the bit is now set,
\* ButtonReleased with that code when it is now clear.  A change of one of
\* the two bits it does not test (0x0400, 0x0800) sends nothing.
C7_TestedBitOneEvent ==
    /\ \A u \in {10, 11} :
         ( Compared /\ SameAxes(state.Gamepad, prev_state.Gamepad)
           /\ state.Gamepad.wButtons = ToggleBit(prev_state.Gamepad.wButtons, u) )
         => last.sent = <<>>
    /\ \A b \in KnownButtons :
         /\ ( Compared /\ SameAxes(state.Gamepad, prev_state.Gamepad)
              /\ BitNewlySet(state.Gamepad, prev_state.Gamepad, b[1]) )
            => last.sent = <<ButtonPressed(id, b[2])>>
         /\ ( Compared /\ SameAxes(state.Gamepad, prev_state.Gamepad)
              /\ BitNewlyClear(state.Gamepad, prev_state.Gamepad, b[1]) )
            => last.sent = <<ButtonReleased(id, b[2])>>

C7_Witness ==
    /\ Compared
    /\ SameAxes(state.Gamepad, prev_state.Gamepad)
    /\ BitNewlyClear(state.Gamepad, prev_state.Gamepad, XINPUT_GAMEPAD_BACK)
    /\ last.sent = <<ButtonReleased(id, BTN_SELECT)>>

\* C8: compare_state of a gamepad state against itself sends nothing.
C8_SelfDiffEmpty ==
    (Compared /\ state.Gamepad = prev_state.Gamepad) => last.sent = <<>>

C8_Witness ==
    /\ Compared
    /\ state.Gamepad = prev_state.Gamepad
    /\ state.Gamepad.wButtons = 23130
    /\ state.Gamepad.sThumbRY = -32768

\* the connectivity event each recorded outcome of a poll stands for
EventOf(val) == IF val = ERROR_SUCCESS THEN "Connected" ELSE "Disconnected"

\* C9: for a slot that starts disconnected, the connectivity events the
\* sampler sends follow the changes of the polled outcome one for one: a
\* polled success on a disconnected slot sends exactly one Connected, a polled
\* absence on a connected slot exactly one Disconnected, and so Success,
\* Absent, Success, Absent gives Connected, Disconnected, Connected,
\* Disconnected, whatever unchanged ticks lie between.
C9_EventsFollowOutcomes ==
    /\ \A i \in Slots :
         ~is_connected(gamepads[i]) =>
           conn_sent[i] = [k \in 1 .. Len(outcomes[i]) |-> EventOf(outcomes[i][k])]
    /\ (PolledOk /\ ~last.was_connected)
         => ConnEvents(last.sent) = <<Connected(last.id)>>
    /\ (last.op = "poll" /\ last.val = ERROR_DEVICE_NOT_CONNECTED /\ last.was_connected)
         => last.sent = <<Disconnected(last.id)>>

C9_Witness ==
    \E i \in Slots :
      /\ ~is_connected(gamepads[i])
      /\ outcomes[i] = <<ERROR_SUCCESS, ERROR_DEVICE_NOT_CONNECTED,
                         ERROR_SUCCESS, ERROR_DEVICE_NOT_CONNECTED>>
      /\ conn_sent[i] = <<"Connected", "Disconnected", "Connected", "Disconnected">>

AtStartup == { i \in Slots : is_connected(gamepads[i]) }

\* C10: next_event returns the Connected of every slot that was connected at
\* construction, once each and in increasing slot order, before it returns
\* anything received from the channel.
C10_StartupEventsFirst ==
    /\ (last.op = "next_event" /\ last.src = "additional_events")
         => \E i \in AtStartup :
              /\ last.ret = <<Connected(i)>>
              /\ \A j \in Slots :
                   conn_hist[j] = IF j \in AtStartup /\ j <= i
                                  THEN <<"Connected">> ELSE <<>>
    /\ (last.op = "next_event" /\ last.src = "rx" /\ last.ret # <<>>)
         => /\ additional_events = <<>>
            /\ \A i \in AtStartup : conn_hist[i] # <<>> /\ conn_hist[i][1] = "Connected"

C10_Witness ==
    /\ last.op = "next_event"
    /\ last.src = "additional_events"
    /\ last.ret = <<Connected(1)>>
    /\ AtStartup = {0, 1}
    /\ tx # <<>>

\* the events of a log, without their ticks
Events(log) == [k \in 1 .. Len(log) |-> log[k].ev]

\* C11: the events next_event returned from the channel are a prefix of the
\* events the sampler generated, in the same order; while the consumer lives,
\* the rest of the generated events is exactly what waits in the channel
\* (none lost, none doubled); and next_event returns None only when neither
\* the startup buffer nor the channel holds an event.
C11_DeliveredIsPrefix ==
    /\ Len(delivered) <= Len(generated)
    /\ delivered = SubSeq(Events(generated), 1, Len(delivered))
    /\ rx_alive => delivered \o tx = Events(generated)
    /\ (last.op = "next_event" /\ last.ret = <<>>)
         => (additional_events = <<>> /\ tx = <<>>)

C11_Witness ==
    /\ last.op = "next_event"
    /\ Len(delivered) >= 3
    /\ Len(generated) > Len(delivered)
    /\ \E j, k \in 1 .. Len(delivered) :
         /\ j < k
         /\ delivered[j].id > delivered[k].id
         /\ IsInput(delivered[j])

\* C12: a poll that fails with a status other than ERROR_DEVICE_NOT_CONNECTED
\* sends nothing, leaves every connected flag and prev_state as they were, and
\* the loop goes on to the next slot; a flag goes from true to false only in a
\* poll of that slot that replied ERROR_DEVICE_NOT_CONNECTED.
C12_OtherFailureIsNoOp ==
    [][ /\ ( last'.op = "poll"
             /\ last'.val \notin {ERROR_SUCCESS, ERROR_DEVICE_NOT_CONNECTED} )
           => /\ last'.sent = <<>>
              /\ tx' = tx
              /\ connected' = connected
              /\ prev_state' = prev_state
              /\ id' = id + 1
              /\ counter' = counter
        /\ \A i \in Slots :
             (connected[i] /\ ~connected'[i])
               => /\ last'.op = "poll"
                  /\ last'.id = i
                  /\ last'.val = ERROR_DEVICE_NOT_CONNECTED ]_vars

\* a connected slot whose poll failed otherwise on two ticks in a row, still
\* connected, with a baseline another slot has set
C12_Witness ==
    /\ last.op = "poll"
    /\ last.val = ERROR_OTHER
    /\ counter = 1
    /\ last.was_connected
    /\ last.prev_rep = NoReport
    /\ connected[last.id]
    /\ prev_state # ZeroedState

\* C13: gamepad(id) and gamepad_mut(id) return the handle of slot id for
\* id < 4 and, for every id >= 4, the one not_observed handle, whose status
\* is NotObserved; they return a handle for every id.
C13_LookupIsTotal ==
    (last.op \in {"gamepad", "gamepad_mut"})
      => IF last.arg \in Slots
         THEN /\ last.ret = [place |-> "gamepads", index |-> last.arg]
              /\ Deref(last.ret).inner.id = last.arg
              /\ Deref(last.ret).status = gamepads[last.arg]
         ELSE /\ last.ret = [place |-> "not_observed", index |-> 0]
              /\ Deref(last.ret).status = "NotObserved"

C13_Witness ==
    /\ last.op = "gamepad_mut"
    /\ last.arg = LargestId
    /\ last.ret.place = "not_observed"
    /\ gamepads[0] = "Connected"

\* C14: the handle returned for an id >= 4 has no button code and no axis code.
C14_PlaceholderHasNoCodes ==
    (last.op \in {"buttons", "axes"} /\ last.arg = gamepad(NumGamepads))
      => last.ret = <<>>

\* the codes whose calibration the table holds
Calibrated ==
    {AXIS_LSTICKX, AXIS_LSTICKY, AXIS_RSTICKX, AXIS_RSTICKY, AXIS_RT2, AXIS_LT2}

\* C15: whenever axis_info returns calibration data, min < max and
\* deadzone >= 0; for every other axis code, every button code and every
\* code past the end of the table it returns None.
C15_CalibrationIsSane ==
    (last.op = "axis_info")
      => /\ last.ret.some => (last.ret.min < last.ret.max /\ last.ret.deadzone >= 0)
         /\ last.arg[2] \notin Calibrated => last.ret = [some |-> FALSE]

C15_Witness ==
    /\ last.op = "axis_info"
    /\ last.arg[2] = U8_MAX
    /\ last.arg[1].place = "not_observed"
    /\ ~last.ret.some

\* C16: with K = 100, a pass of the sampler over a slot marked connected
\* always queries it; a pass over a slot marked disconnected queries it when
\* the counter is a multiple of K and only then; a pass that does not query
\* leaves the flags, the baseline and the channel as they were.
C16_PollDecision ==
    [][ (id' = id + 1)
          => /\ ITERATIONS_TO_CHECK_IF_CONNECTED = 100
             /\ last'.op \in {"poll", "skip"}
             /\ last'.id = id
             /\ connected[id] => last'.op = "poll"
             /\ ~connected[id] => (last'.op = "poll" <=> counter % 100 = 0)
             /\ last'.op = "skip"
                  => /\ connected' = connected
                     /\ prev_state' = prev_state
                     /\ tx' = tx
                     /\ additional_events' = additional_events ]_vars

\* a slot marked disconnected is queried again, at counter = 100
C16_Witness ==
    /\ last.op = "poll"
    /\ ~last.was_connected
    /\ counter = 100
    /\ last.val = ERROR_SUCCESS
    /\ conn_sent[last.id] = <<"Disconnected", "Connected">>

\* C17: once a device is plugged into a slot marked disconnected and every
\* query of that slot succeeds, the slot is still marked disconnected for at
\* most K = 100 ticks: at the latest the pass over the slot in the K-th tick
\* after the one of the plugging marks it connected, and that pass sends
\* Connected for it.
C17_DetectedWithinK ==
    attached.on =>
      /\ ~connected[attached.slot]
           => /\ counter <= attached.at + 100
              /\ counter = attached.at + 100 => id <= attached.slot
      /\ connected[attached.slot]
           => /\ conn_sent[attached.slot] = <<"Connected">>
              /\ Connected(attached.slot) \in {tx[k] : k \in 1 .. Len(tx)}

\* the longest wait: plugged in during tick 0, after the pass over the slot,
\* and found by the pass of tick 100
C17_Witness ==
    /\ attached.on
    /\ attached.at = 0
    /\ counter = 100
    /\ last.op = "poll"
    /\ last.id = attached.slot
    /\ ~last.was_connected
    /\ last.sent = <<Connected(attached.slot)>>
    /\ outcomes[attached.slot] = <<ERROR_SUCCESS>>

\* the codes of the events of evs that are of the given kind
CodesOf(evs, kind) == { evs[k].code : k \in {j \in 1 .. Len(evs) : evs[j].event = kind} }

\* C18: the button diff covers every code of buttons(): when all sixteen bits
\* of wButtons go from clear to set, each of the fifteen codes of BUTTONS is
\* sent once as ButtonPressed, and when they all go from set to clear, each
\* is sent once as ButtonReleased.
C18_FifteenButtonsCovered ==
    /\ ( Compared /\ SameAxes(state.Gamepad, prev_state.Gamepad)
         /\ prev_state.Gamepad.wButtons = 0 /\ state.Gamepad.wButtons = 65535 )
       => /\ Len(last.sent) = Len(buttons(none))
          /\ CodesOf(last.sent, "ButtonPressed")
               = { buttons(none)[k] : k \in 1 .. Len(buttons(none)) }
    /\ ( Compared /\ SameAxes(state.Gamepad, prev_state.Gamepad)
         /\ prev_state.Gamepad.wButtons = 65535 /\ state.Gamepad.wButtons = 0 )
       => /\ Len(last.sent) = Len(buttons(none))
          /\ CodesOf(last.sent, "ButtonReleased")
               = { buttons(none)[k] : k \in 1 .. Len(buttons(none)) }

\* C19: the channel holds the events in the order they were generated; in
\* that order the ticks never decrease, within one tick the slots never
\* decrease, and among the events of one poll a Connected is the first.
C19_GenerationOrder ==
    /\ tx = Events(generated)
    /\ \A j, k \in 1 .. Len(generated) :
         j < k =>
           /\ generated[j].tick <= generated[k].tick
           /\ generated[j].tick = generated[k].tick
                => /\ generated[j].ev.id <= generated[k].ev.id
                   /\ generated[j].ev.id = generated[k].ev.id
                        => generated[k].ev.event # "Connected"

\* slot 0 sends input events, then slot 1 connects and sends input events,
\* and the next tick sends again
C19_Witness ==
    \E j \in 1 .. Len(tx) :
      /\ j > 1
      /\ j + 2 <= Len(tx)
      /\ IsInput(tx[j - 1]) /\ tx[j - 1].id = 0
      /\ tx[j] = Connected(1)
      /\ IsInput(tx[j + 1]) /\ tx[j + 1].id = 1
      /\ generated[j + 1].tick = 0
      /\ generated[Len(generated)].tick = 1
      /\ generated[Len(generated)].ev.id = 0

\* the connected flags after a pass over slot i that replied val
FlagsAfter(i, val) ==
    [connected EXCEPT ![i] = IF val = ERROR_SUCCESS THEN TRUE
                             ELSE IF val = ERROR_DEVICE_NOT_CONNECTED THEN FALSE
                             ELSE @]

\* C20: once the Receiver is gone nothing enters the channel and the sampler
\* is never stuck: the next pass and the next tick can always be taken; and
\* every pass, with or without a Receiver, decides whether to query, sets the
\* connected flag and replaces the baseline by the same rule.
C20_SamplerOutlivesConsumer ==
    /\ [](~rx_alive =>
            /\ tx = <<>>
            /\ id \in Slots => ENABLED (Poll(ChanInputs, LiveSlots, MaxQueueChan) \/ Skip)
            /\ (id = NumGamepads /\ counter + 1 < MaxTicksChan)
                 => ENABLED Sleep(MaxTicksChan))
    /\ [][ (id' = id + 1) =>
             /\ last'.op = "poll" <=> (connected[id] \/ counter % 100 = 0)
             /\ last'.op = "poll" =>
                  /\ connected' = FlagsAfter(id, last'.val)
                  /\ prev_state' =
                       IF /\ last'.val = ERROR_SUCCESS
                          /\ state'.dwPacketNumber # prev_state.dwPacketNumber
                       THEN state' ELSE prev_state
             /\ last'.op # "poll" =>
                  /\ connected' = connected
                  /\ prev_state' = prev_state ]_vars

\* after the Receiver is gone a poll of the second tick sends input events
\* that reach no channel, and replaces the baseline
C20_Witness ==
    /\ ~rx_alive
    /\ counter = 1
    /\ last.op = "poll"
    /\ last.val = ERROR_SUCCESS
    /\ connected[last.id]
    /\ last.sent # <<>>
    /\ prev_state = state
    /\ tx = <<>>
    /\ generated[Len(generated)].ev = last.sent[Len(last.sent)]

\* C21: every AxisValueChanged that compare_state sends carries a code of
\* axes() for which axis_info holds calibration data, and its value is the
\* raw value of the field of that axis in the new state, unchanged by the
\* conversion to i32, and lies within [min, max] of that axis: [0, 255] for
\* the triggers and [-32768, 32767] for the sticks.
C21_AxisEventsCalibrated ==
    Compared =>
      \A k \in 1 .. Len(last.sent) :
        (last.sent[k].event = "AxisValueChanged") =>
          LET e == last.sent[k]
              info == axis_info(none, e.code)
          IN  /\ e.code \in { axes(none)[n] : n \in 1 .. Len(axes(none)) }
              /\ info.some
              /\ info.min <= e.val /\ e.val <= info.max
              /\ \E a \in KnownAxes : a[2] = e.code /\ e.val = state.Gamepad[a[1]]
              /\ IF e.code \in {AXIS_LT2, AXIS_RT2}
                 THEN 0 <= e.val /\ e.val <= 255
                 ELSE -32768 <= e.val /\ e.val <= 32767

\* a trigger at the top of its range and a stick at the bottom of its range
C21_Witness ==
    /\ Compared
    /\ \E k \in 1 .. Len(last.sent) : last.sent[k] = AxisValueChanged(id, 255, AXIS_RT2)
    /\ prev_state.Gamepad.sThumbRY = -32768
    /\ prev_state.Gamepad.bLeftTrigger = 255

====
